---- MODULE Spec2Model ----
(***************************************************************************)
(* Two programs of the repository are modelled here.                       *)
(*                                                                         *)
(*  1. lib/db/dbmi_client/c_drop_col.c: db_drop_column, the DBMI client    *)
(*     stub of the "drop column" procedure.  Each statement of the         *)
(*     function is one action (L33 .. L43, named after its source line).   *)
(*     The macros of macros.h and the functions they call are not part of  *)
(*     the source at hand; their channel behaviour follows the protocol    *)
(*     description (begin-call writes the procedure id, send-arg writes    *)
(*     one argument, recv-status reads one status code, any channel error  *)
(*     aborts the call).                                                   *)
(*                                                                         *)
(*  2. raster/r.surf.random/main.c: is_int_only, option_must_be_int and    *)
(*     the validation part of main.                                        *)
(***************************************************************************)
EXTENDS Integers, Sequences, FiniteSets, TLC

\* ------------------------------------------------------------------------
\* Bounds of the model
\* ------------------------------------------------------------------------
\* calls each thread issues on its session
MaxCalls == 2
\* the driver's status codes are 0 .. MaxStatus
MaxStatus == 2
\* longest option text given to r.surf.random
MaxLen == 3

\* ------------------------------------------------------------------------
\* Program constants (grass/dbmi.h, used by c_drop_col.c)
\* ------------------------------------------------------------------------
DB_OK == 0
DB_FAILED == 1
DB_PROC_DROP_COLUMN == "DB_PROC_DROP_COLUMN"

\* client threads; thread t works on driver session t
Threads == {1, 2}
Drivers == {1, 2}
\* dbString values used as table and column names
Names == {"employees", "salary"}
\* status codes a driver may answer with (CallStatus)
StatusCodes == 0 .. MaxStatus

VARIABLES
    active,      \* the threads that run in this configuration
    pc,          \* pc[t]: the line of db_drop_column thread t is at, or "idle"
    tableName,   \* tableName[t]: argument of the current call
    columnName,  \* columnName[t]: argument of the current call
    ret_code,    \* ret_code[t]: local variable of db_drop_column
    budget,      \* budget[t]: calls thread t may still start
    proto_send,  \* send handle bound by db__set_protocol_fds (a driver's)
    proto_recv,  \* receive handle bound by db__set_protocol_fds (a driver's)
    wire_out,    \* wire_out[d]: items written to driver d, not yet consumed
    wire_in,     \* wire_in[d]: items driver d wrote, not yet read
    dead,        \* dead[d]: the channel of driver d is marked dead
    cstate,      \* cstate[d]: call-protocol state of the channel of driver d
    trace,       \* trace[t]: channel operations of thread t's current call
    hist,        \* hist[t]: outcome of every finished call of thread t
    surf         \* state of r.surf.random's main

dbvars == <<active, pc, tableName, columnName, ret_code, budget, proto_send,
            proto_recv, wire_out, wire_in, dead, cstate, trace, hist>>
vars == <<active, pc, tableName, columnName, ret_code, budget, proto_send,
          proto_recv, wire_out, wire_in, dead, cstate, trace, hist, surf>>

\* driver session used by thread t (driver argument of db_drop_column)
driver(t) == t

\* ------------------------------------------------------------------------
\* Channel and call protocol
\* ------------------------------------------------------------------------
WriteEntry(d, item, ok) == [op |-> "write", fd |-> d, ok |-> ok, val |-> item]
ReadEntry(d, item, ok) == [op |-> "read", fd |-> d, ok |-> ok, val |-> item]

\* variant: the dead mark is not consulted before an operation
Attempts_unchecked(d) == TRUE

\* A channel operation is attempted only on a channel that is not dead.
Attempts(d) == ~dead[d]

\* Channel.send of one item by thread t on the bound send handle; ok is the
\* outcome of the underlying write.  TRUE in the result means the item went out.
ChannelSend(t, item, ok) ==
    LET d == proto_send IN
    /\ wire_in' = wire_in
    /\ IF ~Attempts(d)
         THEN /\ UNCHANGED <<wire_out, dead, trace>>
         ELSE IF ok
           THEN /\ wire_out' = [wire_out EXCEPT ![d] = Append(@, item)]
                /\ trace' = [trace EXCEPT ![t] = Append(@, WriteEntry(d, item, TRUE))]
                /\ dead' = dead
           ELSE /\ dead' = [dead EXCEPT ![d] = TRUE]
                /\ trace' = [trace EXCEPT ![t] = Append(@, WriteEntry(d, item, FALSE))]
                /\ wire_out' = wire_out

\* Channel.recv of one item by thread t on the bound receive handle.
ChannelRecv(t, ok) ==
    LET d == proto_recv IN
    /\ wire_out' = wire_out
    /\ IF ~Attempts(d)
         THEN /\ UNCHANGED <<wire_in, dead, trace>>
         ELSE IF ok
           THEN /\ wire_in' = [wire_in EXCEPT ![d] = Tail(@)]
                /\ trace' = [trace EXCEPT ![t] = Append(@, ReadEntry(d, Head(wire_in[d]), TRUE))]
                /\ dead' = dead
           ELSE /\ dead' = [dead EXCEPT ![d] = TRUE]
                /\ trace' = [trace EXCEPT ![t] = Append(@, ReadEntry(d, 0, FALSE))]
                /\ wire_in' = wire_in

\* whether a send / receive with underlying outcome ok succeeds
SendOk(ok) == Attempts(proto_send) /\ ok
RecvOk(ok) == Attempts(proto_recv) /\ ok /\ wire_in[proto_recv] # <<>>
\* a receive can be tried when data is there, or fails (peer gone, dead channel)
RecvReady(ok) == ok => (~Attempts(proto_recv) \/ wire_in[proto_recv] # <<>>)

\* variant: a channel failure is reported as DB_FAILED
ChannelFailureCode_failed == DB_FAILED

\* value a call returns when a channel step of it failed: the protocol error
\* code, which is none of the driver's status codes
ChannelFailureCode == -2

\* ------------------------------------------------------------------------
\* db_drop_column
\* ------------------------------------------------------------------------
\* variant: the column name is sent in the place of the table name
FirstArg_column(t) == columnName[t]

\* first and second argument sent (lines 37 and 38)
FirstArg(t) == tableName[t]
SecondArg(t) == columnName[t]

\* variants of the return statement: the return code is not looked at; every
\* failure is folded into DB_FAILED
db_drop_column_ret_ignored(rc) == DB_OK
db_drop_column_ret_folded(rc) == IF rc # DB_OK THEN DB_FAILED ELSE DB_OK

\* value returned once the return code rc was received (lines 43-47)
db_drop_column_ret(rc) == IF rc # DB_OK THEN rc ELSE DB_OK

\* variant: one result field is read whatever the return code
ResultSlots_one(rc) == 1

\* result fields read after return code rc (lines 43-47: none)
ResultSlots(rc) == 0

\* variant: the return code is never received
NextLine_norecv(line) ==
    CASE line = "L33" -> "L34"
      [] line = "L34" -> "L37"
      [] line = "L37" -> "L38"
      [] line = "L38" -> "L43"
      [] line = "L41" -> "L43"

\* line reached after the line `line` completed without a failure
NextLine(line) ==
    CASE line = "L33" -> "L34"
      [] line = "L34" -> "L37"
      [] line = "L37" -> "L38"
      [] line = "L38" -> "L41"
      [] line = "L41" -> "L43"

\* the function returns r; answered tells whether a status code was received
Return(t, r, answered, status) ==
    /\ pc' = [pc EXCEPT ![t] = "idle"]
    /\ hist' = [hist EXCEPT ![t] = Append(@, [answered |-> answered, status |-> status, ret |-> r])]

\* a caller invokes db_drop_column(driver, tableName, columnName)
Call(t) ==
    /\ t \in active
    /\ pc[t] = "idle"
    /\ budget[t] > 0
    /\ \E tn \in Names, cn \in Names :
         /\ tableName' = [tableName EXCEPT ![t] = tn]
         /\ columnName' = [columnName EXCEPT ![t] = cn]
    /\ budget' = [budget EXCEPT ![t] = @ - 1]
    /\ pc' = [pc EXCEPT ![t] = "L33"]
    /\ trace' = [trace EXCEPT ![t] = <<>>]
    \* ret_code is not initialised (line 30); it is not read before line 41 sets it
    /\ ret_code' = [ret_code EXCEPT ![t] = DB_OK]
    /\ UNCHANGED <<active, proto_send, proto_recv, wire_out, wire_in, dead, cstate, hist, surf>>

\* line 33: db__set_protocol_fds(driver->send, driver->recv)
L33(t) ==
    /\ t \in active
    /\ pc[t] = "L33"
    /\ proto_send' = driver(t)
    /\ proto_recv' = driver(t)
    /\ pc' = [pc EXCEPT ![t] = NextLine("L33")]
    /\ UNCHANGED <<active, tableName, columnName, ret_code, budget, wire_out, wire_in, dead, cstate, trace, hist, surf>>

\* line 34: DB_START_PROCEDURE_CALL(DB_PROC_DROP_COLUMN)
L34(t) ==
    /\ t \in active
    /\ pc[t] = "L34"
    /\ \E ok \in BOOLEAN :
         /\ ChannelSend(t, DB_PROC_DROP_COLUMN, ok)
         /\ IF SendOk(ok)
              THEN /\ cstate' = [cstate EXCEPT ![proto_send] = "CallStarted"]
                   /\ pc' = [pc EXCEPT ![t] = NextLine("L34")]
                   /\ hist' = hist
              ELSE /\ cstate' = [cstate EXCEPT ![proto_send] = "Idle"]
                   /\ Return(t, ChannelFailureCode, FALSE, 0)
    /\ UNCHANGED <<active, tableName, columnName, ret_code, budget, proto_send, proto_recv, surf>>

\* DB_SEND_STRING(x) at line `line`
SendString(t, line, x) ==
    /\ t \in active
    /\ pc[t] = line
    /\ \E ok \in BOOLEAN :
         /\ ChannelSend(t, x, ok)
         /\ IF SendOk(ok)
              THEN /\ cstate' = [cstate EXCEPT ![proto_send] = "ArgsSent"]
                   /\ pc' = [pc EXCEPT ![t] = NextLine(line)]
                   /\ hist' = hist
              ELSE /\ cstate' = [cstate EXCEPT ![proto_send] = "Idle"]
                   /\ Return(t, ChannelFailureCode, FALSE, 0)
    /\ UNCHANGED <<active, tableName, columnName, ret_code, budget, proto_send, proto_recv, surf>>

\* line 37: DB_SEND_STRING(tableName)
L37(t) == SendString(t, "L37", FirstArg(t))

\* line 38: DB_SEND_STRING(columnName)
L38(t) == SendString(t, "L38", SecondArg(t))

\* line 41: DB_RECV_RETURN_CODE(&ret_code)
L41(t) ==
    /\ t \in active
    /\ pc[t] = "L41"
    /\ \E ok \in BOOLEAN :
         /\ RecvReady(ok)
         /\ ChannelRecv(t, RecvOk(ok))
         /\ IF RecvOk(ok)
              THEN /\ ret_code' = [ret_code EXCEPT ![t] = Head(wire_in[proto_recv])]
                   /\ cstate' = [cstate EXCEPT ![proto_recv] = "StatusReceived"]
                   /\ pc' = [pc EXCEPT ![t] = NextLine("L41")]
                   /\ hist' = hist
              ELSE /\ ret_code' = ret_code
                   /\ cstate' = [cstate EXCEPT ![proto_recv] = "Idle"]
                   /\ Return(t, ChannelFailureCode, FALSE, 0)
    /\ UNCHANGED <<active, tableName, columnName, budget, proto_send, proto_recv, surf>>

\* the first n items waiting on channel d, as read entries
ReadMany(d, n) == [i \in 1 .. n |-> ReadEntry(d, wire_in[d][i], TRUE)]

\* lines 43-47: if (ret_code != DB_OK) return ret_code; /* no results */ return DB_OK
L43(t) ==
    /\ t \in active
    /\ pc[t] = "L43"
    /\ LET n == ResultSlots(ret_code[t])
           d == proto_recv
       IN  /\ Len(wire_in[d]) >= n
           /\ wire_in' = [wire_in EXCEPT ![d] = SubSeq(@, n + 1, Len(@))]
           /\ trace' = [trace EXCEPT ![t] = @ \o ReadMany(d, n)]
           /\ cstate' = [cstate EXCEPT ![d] = "Idle"]
    /\ Return(t, db_drop_column_ret(ret_code[t]), TRUE, ret_code[t])
    /\ UNCHANGED <<active, tableName, columnName, ret_code, budget, proto_send, proto_recv, wire_out, dead, surf>>

\* The driver process: it consumes one request (procedure id and two strings)
\* and answers with a status code; after a failure status it may send one more
\* item that no client expects.
DriverReply(d) ==
    /\ ~dead[d]
    /\ Len(wire_out[d]) >= 3
    /\ wire_out' = [wire_out EXCEPT ![d] = SubSeq(@, 4, Len(@))]
    /\ \E s \in StatusCodes, g \in BOOLEAN :
         wire_in' = [wire_in EXCEPT ![d] =
                        IF g /\ s # DB_OK THEN @ \o <<s, DB_OK>> ELSE Append(@, s)]
    /\ UNCHANGED <<active, pc, tableName, columnName, ret_code, budget, proto_send, proto_recv, dead, cstate, trace, hist, surf>>

DbInitWith(ts, n) ==
    /\ active = ts
    /\ pc = [t \in Threads |-> "idle"]
    /\ tableName = [t \in Threads |-> "employees"]
    /\ columnName = [t \in Threads |-> "employees"]
    /\ ret_code = [t \in Threads |-> DB_OK]
    /\ budget = [t \in Threads |-> n]
    /\ proto_send = 0
    /\ proto_recv = 0
    /\ wire_out = [d \in Drivers |-> <<>>]
    /\ wire_in = [d \in Drivers |-> <<>>]
    /\ dead = [d \in Drivers |-> FALSE]
    /\ cstate = [d \in Drivers |-> "Idle"]
    /\ trace = [t \in Threads |-> <<>>]
    /\ hist = [t \in Threads |-> <<>>]

\* one caller thread, one driver session
Init ==
    /\ DbInitWith({1}, MaxCalls)
    /\ surf = [pc |-> "unused"]

\* two caller threads, each on its own driver session
InitMT ==
    /\ DbInitWith({1, 2}, 1)
    /\ surf = [pc |-> "unused"]

Next ==
    \/ \E t \in Threads : Call(t)
    \/ \E t \in Threads : L33(t)
    \/ \E t \in Threads : L34(t)
    \/ \E t \in Threads : L37(t)
    \/ \E t \in Threads : L38(t)
    \/ \E t \in Threads : L41(t)
    \/ \E t \in Threads : L43(t)
    \/ \E d \in Drivers : DriverReply(d)

Spec == Init /\ [][Next]_vars

SpecMT == InitMT /\ [][Next]_vars

\* ------------------------------------------------------------------------
\* r.surf.random (raster/r.surf.random/main.c)
\* ------------------------------------------------------------------------
\* characters an option text is made of
Chars == {"5", ".", "-", " "}
Texts == UNION {[1 .. n -> Chars] : n \in 0 .. MaxLen}

IsSpace(c) == c = " "
IsDigit(c) == c = "5"
DigitVal(c) == IF c = "5" THEN 5 ELSE 0

RECURSIVE Pow10(_)
Pow10(n) == IF n = 0 THEN 1 ELSE 10 * Pow10(n - 1)

\* index of the first character at or after i that is not white space
RECURSIVE SkipSpaces(_, _)
SkipSpaces(s, i) == IF i <= Len(s) /\ IsSpace(s[i]) THEN SkipSpaces(s, i + 1) ELSE i

\* index of the first character at or after i that is not a digit
RECURSIVE DigitsEnd(_, _)
DigitsEnd(s, i) == IF i <= Len(s) /\ IsDigit(s[i]) THEN DigitsEnd(s, i + 1) ELSE i

\* decimal value of the digits s[i .. j-1]
RECURSIVE DigitsValue(_, _, _)
DigitsValue(s, i, j) == IF i >= j THEN 0 ELSE DigitsValue(s, i, j - 1) * 10 + DigitVal(s[j - 1])

\* sscanf(buffer, "%d%n", ...): white space, an optional sign, digits.
\* items is the return value, nchars what %n stores when it is reached.
sscanf_d_n(s) ==
    LET a == SkipSpaces(s, 1)
        b == IF a <= Len(s) /\ s[a] = "-" THEN a + 1 ELSE a
        c == DigitsEnd(s, b)
    IN  [items |-> IF c > b THEN 1 ELSE IF a > Len(s) THEN -1 ELSE 0,
         nchars |-> c - 1]

\* variant: the count of characters read is not compared with the length
AllCharsRead_nolength(r, s) == r.items = 1

\* the test of line 39: is the whole buffer consumed by the one conversion
AllCharsRead(r, s) == r.items = 1 /\ r.nchars = Len(s)

\* is_int_only (lines 30-43)
is_int_only(buffer) == AllCharsRead(sscanf_d_n(buffer), buffer)

\* atof(s), as the value times 10^MaxLen: white space, an optional sign,
\* digits with an optional decimal point; 0 when no number is found.
atof(s) ==
    LET a == SkipSpaces(s, 1)
        neg == a <= Len(s) /\ s[a] = "-"
        b == IF neg THEN a + 1 ELSE a
        c == DigitsEnd(s, b)
        dot == c <= Len(s) /\ s[c] = "."
        e == IF dot THEN DigitsEnd(s, c + 1) ELSE c
        nfrac == IF dot THEN e - (c + 1) ELSE 0
        mag == IF (c - b) + nfrac = 0
                 THEN 0
                 ELSE DigitsValue(s, b, c) * Pow10(MaxLen)
                      + (IF dot THEN DigitsValue(s, c + 1, e) * Pow10(MaxLen - nfrac) ELSE 0)
    IN  IF neg THEN 0 - mag ELSE mag

\* option_must_be_int (lines 54-59): TRUE when it returns, FALSE when it
\* ends the program with G_fatal_error
option_must_be_int(answer) == is_int_only(answer)

\* lines 112-115: the integer checks pass
IntChecksPass(i_flag, min, max) ==
    i_flag => (option_must_be_int(min) /\ option_must_be_int(max))

\* lines 119-125: the range check passes
RangeCheckPasses(min_value, max_value) == ~(min_value > max_value)

\* the command line: texts of min= and max=, and the -i flag
InitSurf ==
    /\ DbInitWith({}, 0)
    /\ \E mn \in Texts, mx \in Texts, i \in BOOLEAN :
         surf = [pc |-> "L104", min |-> mn, max |-> mx, i_flag |-> i,
                 min_value |-> 0, max_value |-> 0, randsurf |-> FALSE, written |-> FALSE]

\* lines 104-105: if (G_parser(argc, argv)) exit(EXIT_FAILURE)
L104 ==
    /\ surf.pc = "L104"
    /\ \E rejected \in BOOLEAN :
         surf' = [surf EXCEPT !.pc = IF rejected THEN "exit_failure" ELSE "L107"]
    /\ UNCHANGED dbvars

\* lines 107-108: min_value = atof(min->answer); max_value = atof(max->answer)
L107 ==
    /\ surf.pc = "L107"
    /\ surf' = [surf EXCEPT !.pc = "L112",
                            !.min_value = atof(surf.min),
                            !.max_value = atof(surf.max)]
    /\ UNCHANGED dbvars

\* lines 112-115: if (i_flag->answer) { option_must_be_int(min); option_must_be_int(max); }
L112 ==
    /\ surf.pc = "L112"
    /\ surf' = [surf EXCEPT !.pc = IF IntChecksPass(surf.i_flag, surf.min, surf.max)
                                     THEN "L119" ELSE "fatal"]
    /\ UNCHANGED dbvars

\* lines 119-125: if (min_value > max_value) G_fatal_error(...)
L119 ==
    /\ surf.pc = "L119"
    /\ surf' = [surf EXCEPT !.pc = IF RangeCheckPasses(surf.min_value, surf.max_value)
                                     THEN "L127" ELSE "fatal"]
    /\ UNCHANGED dbvars

\* line 127: randsurf(out->answer, min_value, max_value, i_flag->answer)
L127 ==
    /\ surf.pc = "L127"
    /\ surf' = [surf EXCEPT !.pc = "L131", !.randsurf = TRUE]
    /\ UNCHANGED dbvars

\* lines 131-146: title and history are written, exit(EXIT_SUCCESS)
L131 ==
    /\ surf.pc = "L131"
    /\ surf' = [surf EXCEPT !.pc = "exit_success", !.written = TRUE]
    /\ UNCHANGED dbvars

NextSurf ==
    \/ L104
    \/ L107
    \/ L112
    \/ L119
    \/ L127
    \/ L131

SpecSurf == InitSurf /\ [][NextSurf]_vars

\* ------------------------------------------------------------------------
\* Properties
\* ------------------------------------------------------------------------
Last(s) == s[Len(s)]
\* the status codes a call read, and whether one of its channel steps failed
OkReads(tr) == SelectSeq(tr, LAMBDA e : e.op = "read" /\ e.ok)
StepFailed(tr) == \E i \in DOMAIN tr : ~tr[i].ok
Finished(t) == pc[t] = "idle" /\ hist[t] # <<>>

\* C1: the channel operations of a db_drop_column call come in the order
\* write procedure id, write tableName, write columnName, read status; no read
\* comes before both arguments are written, and a failed step ends the call.
C1_CallOrder ==
    \A t \in active :
        LET tr == trace[t] IN
        /\ Len(tr) <= 4
        /\ \A i \in DOMAIN tr :
             /\ (i < Len(tr)) => tr[i].ok
             /\ (i = 1) => (tr[i].op = "write" /\ tr[i].val = DB_PROC_DROP_COLUMN)
             /\ (i = 2) => (tr[i].op = "write" /\ tr[i].val = tableName[t])
             /\ (i = 3) => (tr[i].op = "write" /\ tr[i].val = columnName[t])
             /\ (i = 4) => (tr[i].op = "read")

\* a call with two different arguments got its status
C1_Witness ==
    \E t \in active :
        /\ Len(trace[t]) = 4
        /\ trace[t][4].ok
        /\ tableName[t] # columnName[t]

\* C2: once a call has read a status code other than DB_OK it performs no
\* further channel operation: the failure status is the last entry of the
\* call's trace, and the call returns that status, not a channel failure.
C2_StatusShortCircuit ==
    \A t \in active :
        /\ \A i \in DOMAIN trace[t] :
             (trace[t][i].op = "read" /\ trace[t][i].ok /\ trace[t][i].val # DB_OK)
                 => i = Len(trace[t])
        /\ (Finished(t) /\ OkReads(trace[t]) # <<>> /\ OkReads(trace[t])[1].val # DB_OK)
                 => (Last(hist[t]).answered /\ Last(hist[t]).ret # ChannelFailureCode)

\* a call ended on a failure status while the driver's extra item is unread
C2_Witness ==
    \E t \in active :
        /\ Finished(t)
        /\ Last(hist[t]).answered
        /\ Last(hist[t]).status # DB_OK
        /\ OkReads(trace[t]) # <<>>
        /\ wire_in[driver(t)] # <<>>

\* C3 (as claimed), for the calls the driver answered: the value returned is
\* DB_OK when the driver reported success and DB_FAILED for every other
\* status code.
C3_OkOrFailed ==
    \A t \in active : \A i \in DOMAIN hist[t] :
        hist[t][i].answered =>
            hist[t][i].ret = (IF hist[t][i].status = DB_OK THEN DB_OK ELSE DB_FAILED)

C5_SuccessReadsStatusOnly ==
    \A t \in active :
        (Finished(t) /\ Last(hist[t]).ret = DB_OK) =>
            /\ Len(trace[t]) = 4
            /\ \A i \in 1 .. 3 : trace[t][i].op = "write" /\ trace[t][i].ok
            /\ trace[t][4] = ReadEntry(driver(t), DB_OK, TRUE)
            /\ cstate[driver(t)] = "Idle"
            /\ ~dead[driver(t)]
            /\ (budget[t] > 0) => ENABLED Call(t)

\* two calls in a row on one session, both successful
C5_Witness ==
    \E t \in active :
        /\ Finished(t)
        /\ Len(hist[t]) >= 2
        /\ \A i \in DOMAIN hist[t] : hist[t][i].answered /\ hist[t][i].ret = DB_OK

\* C6 (as claimed): a finished call that wrote the procedure id read exactly
\* one status code, also when sending an argument failed.
C6_AlwaysOneStatusRead ==
    \A t \in active :
        (Finished(t) /\ trace[t] # <<>> /\ trace[t][1].ok) =>
            Len(OkReads(trace[t])) = 1

\* C6 (amended): a finished call that wrote the procedure id read exactly one
\* status code when none of its channel steps failed, and none when one did.
C6_OneStatusReadUnlessAborted ==
    \A t \in active :
        (Finished(t) /\ trace[t] # <<>> /\ trace[t][1].ok) =>
            Len(OkReads(trace[t])) = (IF StepFailed(trace[t]) THEN 0 ELSE 1)

\* a call whose second argument could not be sent, and that read no status
C6_Witness ==
    \E t \in active :
        /\ Finished(t)
        /\ Len(trace[t]) = 3
        /\ ~trace[t][3].ok
        /\ OkReads(trace[t]) = <<>>

C8_OwnHandlesOnly ==
    \A t \in active : \A i \in DOMAIN trace[t] : trace[t][i].fd = driver(t)

IntText(s) ==
    \E k \in 0 .. Len(s), g \in 0 .. 1 :
        /\ k + g < Len(s)
        /\ \A i \in 1 .. k : s[i] = " "
        /\ (g = 1) => s[k + 1] = "-"
        /\ \A i \in (k + g + 1) .. Len(s) : s[i] = "5"

Validated ==
    /\ surf.min_value <= surf.max_value
    /\ surf.i_flag => (IntText(surf.min) /\ IntText(surf.max))

\* C10: randsurf and the writes after it are reached only with min <= max
\* and, under -i, with both option texts integers and nothing else; a fatal
\* error is raised only for min > max or, under -i, a text that is not an
\* integer (min = max is accepted).
C10_ValidatedBeforeRandsurf ==
    /\ (surf.pc \in {"L127", "L131", "exit_success"}) => Validated
    /\ (surf.randsurf \/ surf.written) => Validated
    /\ (surf.pc = "fatal") => ~Validated

\* an integer map with min = max, given as two different texts, was written
C10_Witness ==
    /\ surf.pc = "exit_success"
    /\ surf.written
    /\ surf.i_flag
    /\ surf.min_value = surf.max_value
    /\ surf.min # surf.max

====
